---- MODULE Spec2Model ----
(***************************************************************************)
(* Trippy Trader (src/main.py): the CSV export/merge step of GameBrowser.  *)
(*                                                                         *)
(* Text.  A text value is a sequence of atoms.  An atom is a single        *)
(* character ("a", " ", ",", "&", "\"") when the text comes from the user  *)
(* or the catalog, or a literal fragment of the source ("Trippy Trades",   *)
(* " Game [") that contains no comma, no double quote and is never         *)
(* lower-cased or stripped.  The empty text '' is << >>.                   *)
(*                                                                         *)
(* Files.  A persisted file is a record [exists, header, rows]: header is  *)
(* the sequence of column names of the first line (<< >> when the file is  *)
(* empty), rows the sequence of data lines, each a sequence of cells.      *)
(* The csv module's own quoting is a bijection between cell values and     *)
(* their text on disk, so it is modelled at the cell level; a write cut    *)
(* short by an I/O failure keeps a prefix of whole lines.                  *)
(***************************************************************************)
EXTENDS Integers, Sequences, FiniteSets, TLC

\* ------------------------------------------------------------------ bounds
\* Export attempts in one behaviour.
MaxExports == 2
\* Lines that reach the disk before a failing write stops (0 = empty file).
MaxFlushed == 2
\* Longest title drawn for the handle derivation.
MaxTitleLen == 1
\* _make_request calls in one run
MaxCalls == 3
\* the latest clock tick at which a call starts
MaxTime == 5
\* the longest search term typed
MaxTermLen == 2
\* user actions in one session while the loader threads run
MaxSteps == 5
\* image widgets and loaders made in such a session
MaxMade == 4
\* user actions in one session of picking, typing and exporting
MaxClicks == 6
\* image widgets and loaders made in such a session
MaxCovers == 4
\* the longest title and location drawn for the comma quoting
MaxFieldLen == 2
\* page requests of one get_games_by_platform call
MaxPages == 3

\* ------------------------------------------------------- program constants
CSV_FIELDS == <<
    "Handle", "Title", "Body (HTML)", "Vendor", "Product Category", "Type", "Tags", "Published",
    "Option1 Name", "Option1 Value", "Option1 Linked To", "Option2 Name", "Option2 Value",
    "Option2 Linked To", "Option3 Name", "Option3 Value", "Option3 Linked To", "Variant SKU",
    "Variant Grams", "Variant Inventory Tracker", "Variant Inventory Policy",
    "Variant Fulfillment Service", "Variant Price", "Variant Compare At Price",
    "Variant Requires Shipping", "Variant Taxable", "Variant Barcode", "Image Src",
    "Image Position", "Image Alt Text", "Gift Card", "SEO Title", "SEO Description",
    "Google Shopping / Google Product Category", "Google Shopping / Gender",
    "Google Shopping / Age Group", "Google Shopping / MPN", "Google Shopping / Condition",
    "Google Shopping / Custom Product", "Google Shopping / Custom Label 0",
    "Google Shopping / Custom Label 1", "Google Shopping / Custom Label 2",
    "Google Shopping / Custom Label 3", "Google Shopping / Custom Label 4",
    "EComposer product countdown end at (product.metafields.ecomposer.countdown)",
    "EComposer product countdown start at (product.metafields.ecomposer.countdown_from)",
    "Google: Custom Product (product.metafields.mm-google-shopping.custom_product)",
    "Recommended age group (product.metafields.shopify.recommended-age-group)",
    "Toy figure features (product.metafields.shopify.toy-figure-features)",
    "Video game genre (product.metafields.shopify.video-game-genre)",
    "Video game platform (product.metafields.shopify.video-game-platform)",
    "Video game sub-genre (product.metafields.shopify.video-game-sub-genre)",
    "Complementary products (product.metafields.shopify--discovery--product_recommendation.complementary_products)",
    "Related products (product.metafields.shopify--discovery--product_recommendation.related_products)",
    "Related products settings (product.metafields.shopify--discovery--product_recommendation.related_products_display)",
    "Variant Image", "Variant Weight Unit", "Variant Tax Code", "Cost per item",
    "Included / Australia", "Price / Australia", "Compare At Price / Australia",
    "Included / new zealand", "Price / new zealand", "Compare At Price / new zealand",
    "Included / world wide", "Price / world wide", "Compare At Price / world wide", "Status"
>>

inventory_fields == <<
    "Handle", "Title", "Option1 Name", "Option1 Value",
    "Option2 Name", "Option2 Value", "Option3 Name", "Option3 Value",
    "SKU", "HS Code", "COO", "Location",
    "Unavailable", "Committed", "Available", "On hand"
>>

variants == <<
    "Black Label - Very Good",
    "Black Label - Good",
    "Black Label - Damaged",
    "Black Label - Very Good + Manual",
    "Black Label - Good + Manual",
    "Black Label - Damaged + Manual",
    "Platinum - Very Good",
    "Platinum - Good",
    "Platinum - Damaged",
    "Platinum - Very Good + Manual",
    "Platinum - Good + Manual",
    "Platinum - Damaged + Manual",
    "Disk Only"
>>

\* ------------------------------------------------------------ text helpers
Range(s) == {s[i] : i \in DOMAIN s}

RECURSIVE Flatten(_)
Flatten(ss) == IF ss = << >> THEN << >> ELSE Head(ss) \o Flatten(Tail(ss))

UpperCase == <<"A","B","C","D","E","F","G","H","I","J","K","L","M",
               "N","O","P","Q","R","S","T","U","V","W","X","Y","Z">>
LowerCase == <<"a","b","c","d","e","f","g","h","i","j","k","l","m",
               "n","o","p","q","r","s","t","u","v","w","x","y","z">>
Digits    == <<"0","1","2","3","4","5","6","7","8","9">>

UpperChars == Range(UpperCase)
AlnumChars == Range(UpperCase) \cup Range(LowerCase) \cup Range(Digits)
DigitChars == Range(Digits)

\* str.lower() on one character
LowerChar(c) ==
    IF c \in UpperChars
    THEN LowerCase[CHOOSE i \in DOMAIN UpperCase : UpperCase[i] = c]
    ELSE c

\* str.lower()
lower(s) == [i \in DOMAIN s |-> LowerChar(s[i])]

\* str.isalnum() on one character
isalnum(c) == c \in AlnumChars

\* str.replace(old, new) for a one-character old
replace(s, old, new) ==
    Flatten([i \in DOMAIN s |-> IF s[i] = old THEN new ELSE <<s[i]>>])

\* str.strip(): drop leading and trailing blanks
RECURSIVE lstrip(_)
lstrip(s) == IF s # << >> /\ Head(s) = " " THEN lstrip(Tail(s)) ELSE s
RECURSIVE rstrip(_)
rstrip(s) ==
    IF s # << >> /\ s[Len(s)] = " " THEN rstrip(SubSeq(s, 1, Len(s) - 1)) ELSE s
strip(s) == rstrip(lstrip(s))

\* str.split(','): the pieces between commas, in order
RECURSIVE split(_)
split(s) ==
    IF \A i \in DOMAIN s : s[i] # ","
    THEN <<s>>
    ELSE LET k == CHOOSE i \in DOMAIN s :
                     s[i] = "," /\ \A j \in 1..(i - 1) : s[j] # ","
         IN <<SubSeq(s, 1, k - 1)>> \o split(SubSeq(s, k + 1, Len(s)))

\* sep.join(parts)
RECURSIVE join(_, _)
join(sep, parts) ==
    IF parts = << >> THEN << >>
    ELSE IF Len(parts) = 1 THEN parts[1]
    ELSE parts[1] \o sep \o join(sep, Tail(parts))

\* str(n) for n >= 0
RECURSIVE str(_)
str(n) == IF n < 10 THEN <<Digits[n + 1]>> ELSE str(n \div 10) \o <<Digits[(n % 10) + 1]>>

\* int(s) succeeds: blanks around a non-empty run of decimal digits.  The
\* quantity field carries QIntValidator(0, 9999), which admits no sign.
IsIntText(s) == strip(s) # << >> /\ \A c \in Range(strip(s)) : c \in DigitChars

DigitValue(c) == (CHOOSE i \in DOMAIN Digits : Digits[i] = c) - 1

RECURSIVE int(_)
int(s) ==
    LET t == strip(s)
    IN IF Len(t) = 1 THEN DigitValue(t[1])
       ELSE 10 * int(SubSeq(t, 1, Len(t) - 1)) + DigitValue(t[Len(t)])

\* ------------------------------------------------------------------ handle
\* lines 952-955: lower-case the joined triple, blanks to hyphens, "&" to
\* "and", then keep only alphanumerics and hyphens.
\* the handle without the .lower() of line 953
handle_keeps_case(title, platform_name, region_code) ==
    LET joined  == title \o <<"-">> \o platform_name \o <<"-">> \o region_code
        hyphens == replace(joined, " ", <<"-">>)
        anded   == replace(hyphens, "&", <<"a", "n", "d">>)
    IN SelectSeq(anded, LAMBDA c : isalnum(c) \/ c = "-")
\* the handle with the "&" replacement made after the filter of line 955
handle_drops_ampersand(title, platform_name, region_code) ==
    LET joined  == title \o <<"-">> \o platform_name \o <<"-">> \o region_code
        lowered == lower(joined)
        hyphens == replace(lowered, " ", <<"-">>)
        kept    == SelectSeq(hyphens, LAMBDA c : isalnum(c) \/ c = "-")
    IN replace(kept, "&", <<"a", "n", "d">>)
handle(title, platform_name, region_code) ==
    LET joined  == title \o <<"-">> \o platform_name \o <<"-">> \o region_code
        lowered == lower(joined)
        hyphens == replace(lowered, " ", <<"-">>)
        anded   == replace(hyphens, "&", <<"a", "n", "d">>)
    IN SelectSeq(anded, LAMBDA c : isalnum(c) \/ c = "-")

\* -------------------------------------------------------------- csv files
NoFile == [exists |-> FALSE, header |-> << >>, rows |-> << >>]

ColumnOf(fieldnames, name) == CHOOSE i \in DOMAIN fieldnames : fieldnames[i] = name

\* dict(zip(fieldnames, cells)) over the first n columns
RECURSIVE zip_dict(_, _, _)
zip_dict(fieldnames, cells, n) ==
    IF n = 1 THEN fieldnames[1] :> cells[1]
    ELSE zip_dict(fieldnames, cells, n - 1) @@ (fieldnames[n] :> cells[n])

\* csv.DictReader over one file (lines 958-962): an absent or empty file has
\* no rows; otherwise every data line becomes a dict keyed by the header.
read_csv_to_list(file) ==
    IF ~file.exists \/ file.header = << >>
    THEN << >>
    ELSE [i \in DOMAIN file.rows |->
             zip_dict(file.header, file.rows[i], Len(file.header))]

\* csv.DictWriter.writerow: one cell per fieldname in declared order, a key
\* the dict lacks written as '' (restval).
\* the writer emitting only the cells the dict sets
DictToCells_drops_unset(fieldnames, row) ==
    LET keys == DOMAIN row
        set  == SelectSeq(fieldnames, LAMBDA name : name \in keys)
    IN [i \in DOMAIN set |-> row[set[i]]]
DictToCells(fieldnames, row) ==
    LET keys == DOMAIN row
    IN [i \in DOMAIN fieldnames |->
           IF fieldnames[i] \in keys THEN row[fieldnames[i]] ELSE << >>]

\* The file a completed `with open(name, 'w')` block leaves (lines 1082-1085
\* and 1094-1097): header line, then every row.
WrittenFile(fieldnames, rows) ==
    [exists |-> TRUE,
     header |-> fieldnames,
     rows   |-> [i \in DOMAIN rows |-> DictToCells(fieldnames, rows[i])]]

\* The file left when the write fails after open(name, 'w') truncated it and
\* `flushed` lines reached the disk.
TruncatedFile(fieldnames, rows, flushed) ==
    IF flushed = 0
    THEN [exists |-> TRUE, header |-> << >>, rows |-> << >>]
    ELSE [exists |-> TRUE,
          header |-> fieldnames,
          rows   |-> SubSeq(WrittenFile(fieldnames, rows).rows, 1, flushed - 1)]

\* lines 969-970: drop the rows that carry the computed handle
\* the filter left out, and the filter with its comparison inverted
remove_existing_keeps_all(rows, h) == rows
remove_existing_inverted(rows, h) == SelectSeq(rows, LAMBDA row : row["Handle"] = h)
remove_existing(rows, h) == SelectSeq(rows, LAMBDA row : row["Handle"] # h)

\* ------------------------------------------------------------ row building
\* lines 902-907
RECURSIVE get_existing_quantity(_, _, _)
get_existing_quantity(inventory_rows, h, variant) ==
    IF inventory_rows = << >> THEN 0
    ELSE IF Head(inventory_rows)["Handle"] = h
            /\ Head(inventory_rows)["Option1 Value"] = variant
         THEN int(Head(inventory_rows)["Available"])
         ELSE get_existing_quantity(Tail(inventory_rows), h, variant)

\* lines 1037-1046: wrap a value holding a comma in double quotes unless it
\* already starts and ends with one
quote_field(value) ==
    IF "," \in Range(value) /\ ~(value[1] = "\"" /\ value[Len(value)] = "\"")
    THEN <<"\"">> \o value \o <<"\"">>
    ELSE value

processed_row(row) == [k \in DOMAIN row |-> quote_field(row[k])]

\* line 973
product_title(title, platform_name, region_code) ==
    title \o <<" ">> \o platform_name \o <<" Game [">> \o region_code \o <<"]">>

\* lines 979-986
product_tags(title, platform_name, custom_tags_text) ==
    LET base_tags ==
            <<title, platform_name>> \o
            (IF lower(platform_name) =
                    <<"p","l","a","y","s","t","a","t","i","o","n"," ","2">>
             THEN <<<<"PS2">>, <<"PlayStation2">>>> ELSE << >>)
        pieces == split(custom_tags_text)
        custom_tags ==
            SelectSeq([i \in DOMAIN pieces |-> strip(pieces[i])],
                      LAMBDA tag : tag # << >>)
    IN join(<<",", " ">>, base_tags \o custom_tags)

\* lines 989-1013
base_row(h, title, tags, selected_image_url) ==
    ("Handle" :> h) @@ ("Title" :> title) @@ ("Vendor" :> <<"Trippy Trades">>) @@
    ("Product Category" :> <<"Software > Video Game Software">>) @@
    ("Type" :> <<"Video Games & Consoles: Video Games">>) @@
    ("Tags" :> tags) @@ ("Published" :> <<"false">>) @@
    ("Option1 Name" :> <<"Title">>) @@ ("Variant Grams" :> <<"150.0">>) @@
    ("Variant Inventory Tracker" :> <<"shopify">>) @@
    ("Variant Inventory Policy" :> <<"deny">>) @@
    ("Variant Fulfillment Service" :> <<"manual">>) @@
    ("Variant Price" :> <<"0.00">>) @@
    ("Variant Requires Shipping" :> <<"true">>) @@
    ("Variant Taxable" :> <<"true">>) @@
    ("Image Src" :> selected_image_url) @@ ("Image Position" :> <<"1">>) @@
    ("SEO Title" :> title) @@ ("Variant Weight Unit" :> <<"kg">>) @@
    ("Included / Australia" :> <<"true">>) @@
    ("Included / new zealand" :> <<"true">>) @@
    ("Included / world wide" :> <<"true">>) @@ ("Status" :> <<"draft">>)

\* lines 1021-1032: the row of every variant after the first
variant_row(h, variant) ==
    ("Handle" :> h) @@ ("Option1 Value" :> variant) @@
    ("Variant Grams" :> <<"150.0">>) @@
    ("Variant Inventory Tracker" :> <<"shopify">>) @@
    ("Variant Inventory Policy" :> <<"deny">>) @@
    ("Variant Fulfillment Service" :> <<"manual">>) @@
    ("Variant Price" :> <<"0.00">>) @@
    ("Variant Requires Shipping" :> <<"true">>) @@
    ("Variant Taxable" :> <<"true">>) @@
    ("Variant Weight Unit" :> <<"kg">>)

\* lines 1018-1048
\* every variant given a copy of base_row
new_product_rows_all_base(h, title, tags, selected_image_url) ==
    [i \in DOMAIN variants |->
        processed_row(("Option1 Value" :> <<variants[i]>>) @@
                      base_row(h, title, tags, selected_image_url))]
new_product_rows(h, title, tags, selected_image_url) ==
    [i \in DOMAIN variants |->
        processed_row(
            IF i = 1
            THEN ("Option1 Value" :> <<variants[i]>>) @@
                 base_row(h, title, tags, selected_image_url)
            ELSE variant_row(h, <<variants[i]>>))]

\* lines 1056-1059
\* the quantity added without the test of line 1058
new_quantity_every_variant(existing_quantity, variant, selected_variant, quantity) ==
    existing_quantity + quantity
new_quantity(existing_quantity, variant, selected_variant, quantity) ==
    IF variant = selected_variant
    THEN existing_quantity + quantity
    ELSE existing_quantity

\* lines 1050-1079; inventory_rows is the list already filtered at line 970
new_inventory_rows(inventory_rows, h, selected_variant, quantity, location) ==
    [i \in DOMAIN variants |->
        LET variant == <<variants[i]>>
            existing_quantity == get_existing_quantity(inventory_rows, h, variant)
            qty == new_quantity(existing_quantity, variant, selected_variant, quantity)
        IN ("Handle" :> h) @@ ("Title" :> << >>) @@
           ("Option1 Name" :> <<"Title">>) @@ ("Option1 Value" :> variant) @@
           ("Option2 Name" :> << >>) @@ ("Option2 Value" :> << >>) @@
           ("Option3 Name" :> << >>) @@ ("Option3 Value" :> << >>) @@
           ("SKU" :> << >>) @@ ("HS Code" :> << >>) @@ ("COO" :> << >>) @@
           ("Location" :> location) @@ ("Unavailable" :> <<"0">>) @@
           ("Committed" :> <<"0">>) @@ ("Available" :> str(qty)) @@
           ("On hand" :> str(qty))]

\* ------------------------------------------------------------------ state
VARIABLES
    product_file,     \* product_import.csv
    inventory_file,   \* inventory_import.csv
    attempts,         \* export_to_csv calls so far
    last,             \* what the latest call read from the widgets and did
    prev,             \* the same for the call before it
    pre_product,      \* product_import.csv as the latest call found it
    pre_inventory,    \* inventory_import.csv as the latest call found it
    clean             \* no call has failed on file I/O so far

export_vars == <<product_file, inventory_file, attempts, last, prev,
                 pre_product, pre_inventory, clean>>

\* ------------------------------------------------------ reading the files
HandleColumn(file) == ColumnOf(file.header, "Handle")

\* the data lines of a file that carry handle h, in file order
RowsOf(file, h) ==
    IF file.header = << >> THEN << >>
    ELSE LET c == HandleColumn(file)
         IN SelectSeq(file.rows, LAMBDA cells : cells[c] = h)

\* the data lines of a file that carry another handle, in file order
RowsNotOf(file, h) ==
    IF file.header = << >> THEN << >>
    ELSE LET c == HandleColumn(file)
         IN SelectSeq(file.rows, LAMBDA cells : cells[c] # h)

HandlesIn(file) ==
    IF file.header = << >> THEN {}
    ELSE LET c == HandleColumn(file)
         IN {file.rows[i][c] : i \in DOMAIN file.rows}

\* the inventory lines of (h, variant)
VariantRows(file, h, variant) ==
    LET c == ColumnOf(file.header, "Option1 Value")
    IN SelectSeq(RowsOf(file, h), LAMBDA cells : cells[c] = <<variant>>)

\* the quantity a column of inventory_import.csv holds for (h, variant),
\* 0 when it has no such line
QuantityIn(file, h, variant, column) ==
    LET found == VariantRows(file, h, variant)
    IN IF found = << >> THEN 0 ELSE int(found[1][ColumnOf(file.header, column)])

Available(file, h, variant) == QuantityIn(file, h, variant, "Available")
OnHand(file, h, variant)    == QuantityIn(file, h, variant, "On hand")

\* ------------------------------------------------------------ export_to_csv
Game(title) == [kind |-> "game", title |-> title]
NoGameText  == [kind |-> "empty", title |-> << >>]
Placeholder == [kind |-> "placeholder", title |-> << >>]

\* the widget values one export_to_csv call reads (lines 909-950, 984, 1016)
Selection(game, platform_name, region, custom_region, checked_url, custom_image_url, location, quantity, variant) ==
    [game |-> game, platform_name |-> platform_name, checked_url |-> checked_url,
     custom_image_url |-> custom_image_url, location |-> location,
     quantity |-> quantity, custom_region |-> custom_region, region |-> region,
     variant |-> variant, custom_tags |-> << >>]

NoCall ==
    [outcome |-> "none", io |-> {},
     input |-> Selection(NoGameText, << >>, << >>, << >>, << >>, << >>, << >>,
                         << >>, variants[1]),
     handle |-> << >>, region_code |-> << >>, quantity |-> 0, title |-> << >>,
     tags |-> << >>, image |-> << >>, location |-> << >>,
     prior |-> [i \in DOMAIN variants |-> 0]]

Rejected(why, sel) == [NoCall EXCEPT !.outcome = why, !.input = sel]

\* lines 915-926: the url of the first checked ImageWidget, else the
\* stripped custom url
selected_image_url(sel) ==
    IF sel.checked_url # << >> THEN sel.checked_url ELSE strip(sel.custom_image_url)

\* line 949
\* the region list read whatever the override holds
region_code_ignores_override(sel) == sel.region
region_code(sel) ==
    IF strip(sel.custom_region) # << >> THEN strip(sel.custom_region) ELSE sel.region

\* the checks without the location test of lines 932-935
Validation_skips_location(sel) ==
    IF sel.game.kind = "empty" THEN "no_game"
    ELSE IF selected_image_url(sel) = << >> THEN "no_image"
    ELSE IF ~IsIntText(IF sel.quantity = << >> THEN <<"0">> ELSE sel.quantity)
         THEN "bad_quantity"
    ELSE IF sel.game.kind # "game" THEN "no_match"
    ELSE "valid"
\* lines 909-946: the checks made before any file is touched, in code order
Validation(sel) ==
    IF sel.game.kind = "empty" THEN "no_game"
    ELSE IF selected_image_url(sel) = << >> THEN "no_image"
    ELSE IF strip(sel.location) = << >> THEN "no_location"
    ELSE IF ~IsIntText(IF sel.quantity = << >> THEN <<"0">> ELSE sel.quantity)
         THEN "bad_quantity"
    ELSE IF sel.game.kind # "game" THEN "no_match"
    ELSE "valid"

Faults == {"none", "read_product", "read_inventory", "open_product",
           "write_product", "open_inventory", "write_inventory"}

export_to_csv(sel, fault, flushed) ==
    LET quantity   == int(IF sel.quantity = << >> THEN <<"0">> ELSE sel.quantity)
        location   == strip(sel.location)
        h          == handle(sel.game.title, sel.platform_name, region_code(sel))
        product_rows   == remove_existing(read_csv_to_list(product_file), h)
        inventory_rows == remove_existing(read_csv_to_list(inventory_file), h)
        title      == product_title(sel.game.title, sel.platform_name, region_code(sel))
        tags       == product_tags(sel.game.title, sel.platform_name, sel.custom_tags)
        all_product   == product_rows \o
                         new_product_rows(h, title, tags, selected_image_url(sel))
        all_inventory == inventory_rows \o
                         new_inventory_rows(inventory_rows, h, <<sel.variant>>,
                                            quantity, location)
        call == [outcome |-> "ok", io |-> {}, input |-> sel, handle |-> h,
                 region_code |-> region_code(sel), quantity |-> quantity,
                 title |-> title, tags |-> tags,
                 image |-> selected_image_url(sel), location |-> location,
                 prior |-> [i \in DOMAIN variants |->
                               Available(inventory_file, h, variants[i])]]
        failed(io) == [call EXCEPT !.outcome = "io_error", !.io = io]
    IN
    /\ attempts < MaxExports
    /\ attempts' = attempts + 1
    /\ prev' = last
    /\ pre_product' = product_file
    /\ pre_inventory' = inventory_file
    /\ fault \in {"write_product", "write_inventory"} \/ flushed = 0
    /\ fault = "read_product" => product_file.exists
    /\ fault = "read_inventory" => inventory_file.exists
    /\ IF Validation(sel) # "valid"
       THEN /\ fault = "none"
            /\ last' = Rejected(Validation(sel), sel)
            /\ UNCHANGED <<product_file, inventory_file, clean>>
       ELSE CASE fault = "read_product" ->
                 /\ last' = failed({"read_product"})
                 /\ clean' = FALSE
                 /\ UNCHANGED <<product_file, inventory_file>>
              [] fault = "read_inventory" ->
                 /\ last' = failed({"read_product", "read_inventory"})
                 /\ clean' = FALSE
                 /\ UNCHANGED <<product_file, inventory_file>>
              [] fault = "open_product" ->
                 /\ last' = failed({"read_product", "read_inventory"})
                 /\ clean' = FALSE
                 /\ UNCHANGED <<product_file, inventory_file>>
              [] fault = "write_product" ->
                 /\ last' = failed({"read_product", "read_inventory", "write_product"})
                 /\ clean' = FALSE
                 /\ product_file' = TruncatedFile(CSV_FIELDS, all_product, flushed)
                 /\ UNCHANGED inventory_file
              [] fault = "open_inventory" ->
                 /\ last' = failed({"read_product", "read_inventory", "write_product"})
                 /\ clean' = FALSE
                 /\ product_file' = WrittenFile(CSV_FIELDS, all_product)
                 /\ UNCHANGED inventory_file
              [] fault = "write_inventory" ->
                 /\ last' = failed({"read_product", "read_inventory",
                                    "write_product", "write_inventory"})
                 /\ clean' = FALSE
                 /\ product_file' = WrittenFile(CSV_FIELDS, all_product)
                 /\ inventory_file' =
                        TruncatedFile(inventory_fields, all_inventory, flushed)
              [] OTHER ->
                 /\ last' = [call EXCEPT !.io = {"read_product", "read_inventory",
                                                 "write_product", "write_inventory"}]
                 /\ product_file' = WrittenFile(CSV_FIELDS, all_product)
                 /\ inventory_file' = WrittenFile(inventory_fields, all_inventory)
                 /\ UNCHANGED clean

\* ------------------------------------------------------------------ inputs
N64          == <<"N", "6", "4">>
US           == <<"U", "S">>
Shelf        == <<"Shelf A">>
Cover        == <<"https://img/cover.jpg">>
Custom       == <<"https://img/custom.jpg">>

\* a selection that passes validation
Valid(title, checked_url, custom_image_url, quantity, variant) ==
    Selection(Game(title), N64, US, << >>, checked_url, custom_image_url,
              Shelf, quantity, variant)

\* one selection for every way validation fails, in the order of the checks
Invalid ==
    {Selection(NoGameText, N64, US, << >>, Cover, << >>, Shelf, <<"1">>, variants[1]),
     Selection(Game(<<"A", " ", "b">>), N64, US, << >>, << >>, <<" ">>, Shelf,
               <<"1">>, variants[1]),
     Selection(Game(<<"A", " ", "b">>), N64, US, << >>, Cover, << >>, <<" ">>,
               <<"1">>, variants[1]),
     Selection(Game(<<"A", " ", "b">>), N64, US, << >>, Cover, << >>, Shelf,
               <<"x">>, variants[1]),
     Selection(Placeholder, N64, US, << >>, Cover, << >>, Shelf, <<"1">>, variants[1])}

\* two titles that share a handle and one that does not
Titles == {<<"A", " ", "b">>, <<"a", "-", "B">>, <<"a", "&", "b">>}

Selections ==
    {Valid(t, Cover, << >>, q, v) :
        t \in Titles, q \in {<< >>, <<"1">>}, v \in {variants[1], variants[13]}}
    \cup {Valid(<<"A", " ", "b">>, << >>, Custom, <<"1">>, variants[1])}
    \cup Invalid

\* ------------------------------------------------------------ MobyGamesAPI
\* Time is counted in ticks of half a second; the clock starts at a positive
\* epoch time.
\* MobyGamesConfig.rate_limit, 1.0 s
rate_limit == 2
\* the cache_dir GameBrowser.__init__ configures
cache_dir == <<"mobygames_cache">>

VARIABLES
    now,                \* the wall clock
    last_request_time,  \* MobyGamesAPI.last_request_time
    cache,              \* the files of cache_dir: path -> text written
    calls,              \* _make_request calls so far
    sent_at,            \* when the latest upstream request was sent, 0 if none
    sent_before,        \* when the upstream request before that was sent
    ret,                \* the latest _make_request call and how it ended
    ret_prev            \* the call before it

api_vars == <<now, last_request_time, cache, calls, sent_at, sent_before,
              ret, ret_prev>>

\* a request: the endpoint text and the params dict in insertion order
Request(endpoint, params) == [endpoint |-> endpoint, params |-> params]

\* line 296
get_platforms == Request(<<"platforms">>, << >>)

\* line 335
get_game_platform_covers(game_id, platform_id) ==
    Request(<<"games", "/">> \o str(game_id) \o <<"/", "platforms", "/">>
            \o str(platform_id) \o <<"/", "covers">>, << >>)

\* lines 339-344
search_games_by_platform(platform_id, search_term) ==
    Request(<<"games">>,
            << <<<<"platform">>, str(platform_id)>>,
               <<<<"title">>, search_term>>,
               <<<<"format">>, <<"brief">>>>,
               <<<<"limit">>, str(100)>> >>)

\* lines 263-267
_get_cache_path(endpoint, params) ==
    LET params_str ==
            join(<<"_">>, [i \in DOMAIN params |->
                              params[i][1] \o <<"-">> \o params[i][2]])
        filename ==
            replace(replace(endpoint, "/", <<"_">>) \o <<"_">> \o params_str
                    \o <<".json">>, "?", <<"_">>)
    IN cache_dir \o <<"/">> \o filename

\* open(cache_path, 'w') (line 289) needs the directory of the file to
\* exist: only cache_dir does, so a "/" left in the file name makes it fail
writable(cache_path) ==
    \A i \in (Len(cache_dir) + 2)..Len(cache_path) : cache_path[i] # "/"

\* the data of a response: which request the server answered, and which
\* revision of its catalog it answered from
Response(request, revision) == [request |-> request, revision |-> revision]
NoResponse == [request |-> Request(<< >>, << >>), revision |-> 0]

\* str(data) as line 290 writes it and eval(text) as line 276 reads it back;
\* for the JSON values of the catalog (no NaN, no Infinity) the repr of the
\* data evaluates to the data
repr(data) == [repr |-> data]
eval(text) == text.repr

\* line 256; float('inf') is rendered by rate_limit, the least value that
\* calls for no sleep
time_since_last(current_time, last_time) ==
    IF last_time > 0 THEN current_time - last_time ELSE rate_limit

\* lines 258-259: how long _rate_limit sleeps
sleep_time(current_time, last_time) ==
    IF time_since_last(current_time, last_time) < rate_limit
    THEN rate_limit - time_since_last(current_time, last_time)
    ELSE 0

\* lines 274-279: how long a call waits before it answers or goes upstream
\* the limiter run before the cache is looked at
request_wait_before_cache(cached, current_time, last_time) == sleep_time(current_time, last_time)
request_wait(cached, current_time, last_time) ==
    IF cached THEN 0 ELSE sleep_time(current_time, last_time)

\* lines 284-290: the cache after the upstream request ended
\* the body cached whatever the status
cache_after_any_status(files, cache_path, upstream, data) ==
    IF writable(cache_path) THEN (cache_path :> repr(data)) @@ files ELSE files
cache_after(files, cache_path, upstream, data) ==
    IF upstream = "ok" /\ writable(cache_path)
    THEN (cache_path :> repr(data)) @@ files
    ELSE files

NoRet ==
    [request |-> Request(<< >>, << >>), path |-> << >>, kind |-> "none",
     value |-> NoResponse, before |-> << >>]

\* the api object and its surroundings as one value
ApiState ==
    [now |-> now, last_request_time |-> last_request_time, cache |-> cache,
     sent_at |-> sent_at, sent_before |-> sent_before]

\* lines 269-292 on an api state: the state the call leaves and its result.
\* upstream is how the server answers if asked, revision what it answers.
make_request(api, request, upstream, revision) ==
    LET cache_path == _get_cache_path(request.endpoint, request.params)
        cached     == cache_path \in DOMAIN api.cache
        wait       == request_wait(cached, api.now, api.last_request_time)
        data       == Response(request, revision)
        result(kind, value) ==
            [request |-> request, path |-> cache_path, kind |-> kind,
             value |-> value, before |-> api]
    IN IF cached
       THEN [api |-> [api EXCEPT !.now = @ + wait],
             ret |-> result("hit", eval(api.cache[cache_path]))]
       ELSE [api |-> [now |-> api.now + wait,
                      last_request_time |-> api.now,
                      cache |-> cache_after(api.cache, cache_path, upstream, data),
                      sent_at |-> api.now + wait,
                      sent_before |-> api.sent_at],
             ret |-> IF upstream # "ok" THEN result("http_error", NoResponse)
                     ELSE IF ~writable(cache_path)
                          THEN result("cache_error", NoResponse)
                          ELSE result("fetched", data)]

Took(outcome) ==
    /\ now' = outcome.api.now
    /\ last_request_time' = outcome.api.last_request_time
    /\ cache' = outcome.api.cache
    /\ sent_at' = outcome.api.sent_at
    /\ sent_before' = outcome.api.sent_before
    /\ ret' = outcome.ret
    /\ ret_prev' = ret
    /\ calls' = calls + 1

Upstream == {"ok", "http_error"}

\* one catalog call of the main thread
_make_request(request, upstream, revision) ==
    /\ calls < MaxCalls
    /\ now <= MaxTime
    /\ upstream = "http_error" => revision = 1
    /\ Took(make_request(ApiState, request, upstream, revision))

\* time passing between two calls
Pass ==
    /\ now < MaxTime
    /\ now' = now + 1
    /\ UNCHANGED <<last_request_time, cache, calls, sent_at, sent_before,
                   ret, ret_prev>>

InitAPI ==
    /\ now = 1
    /\ last_request_time = 0
    /\ cache = << >>
    /\ calls = 0
    /\ sent_at = 0
    /\ sent_before = 0
    /\ ret = NoRet
    /\ ret_prev = NoRet

\* ------------------------------------------------------------- the catalog
\* What the server holds: one platform, two games found by the search term
\* "a", and their cover groups.
UnitedStates == <<"U","n","i","t","e","d"," ","S","t","a","t","e","s">>
Japan   == <<"J","a","p","a","n">>
Brazil  == <<"B","r","a","z","i","l">>
Australia == <<"A","u","s","t","r","a","l","i","a">>
Europe  == <<"E","u","r","o","p","e">>
FrontCover == <<"Front Cover">>
UrlUS == <<"https://img/us.jpg">>
UrlJP == <<"https://img/jp.jpg">>
UrlBR == <<"https://img/br.jpg">>

CatalogGames ==
    << [game_id |-> 1, title |-> <<"A", " ", "b">>],
       [game_id |-> 2, title |-> <<"a", "&", "b">>] >>

\* response.get('platforms', []) of line 297
platforms_of(data) ==
    IF data.request = get_platforms
    THEN << [platform_id |-> 1, platform_name |-> N64] >>
    ELSE << >>

\* response.get('games', []) of line 345
games_of(data) ==
    IF data.request.endpoint = <<"games">>
          /\ Len(data.request.params) >= 2
          /\ data.request.params[2][2] = <<"a">>
    THEN CatalogGames
    ELSE << >>

\* covers_response.get('cover_groups', []) of line 636; a cover has no
\* 'countries' key (here: the empty list) until line 706 gives it one
cover_groups_of(data) ==
    IF data.request = get_game_platform_covers(1, 1)
    THEN << [countries |-> <<UnitedStates>>,
             covers |-> <<[scan_of |-> FrontCover, image |-> UrlUS, countries |-> << >>]>>],
            [countries |-> <<Japan>>,
             covers |-> <<[scan_of |-> FrontCover, image |-> UrlJP, countries |-> << >>]>>] >>
    ELSE IF data.request = get_game_platform_covers(2, 1)
    THEN << [countries |-> <<Brazil>>,
             covers |-> <<[scan_of |-> FrontCover, image |-> UrlBR, countries |-> << >>]>>] >>
    ELSE << >>

\* ------------------------------------------------------------ sorted texts
\* the characters of the model in code point order
Ascii ==
    <<" ", "!", "&", "-", "/">> \o Digits \o <<"?">> \o UpperCase \o <<"_">>
    \o LowerCase

ord(c) == CHOOSE i \in DOMAIN Ascii : Ascii[i] = c

\* s < t for two str values
RECURSIVE TextLess(_, _)
TextLess(s, t) ==
    IF t = << >> THEN FALSE
    ELSE IF s = << >> THEN TRUE
    ELSE IF Head(s) = Head(t) THEN TextLess(Tail(s), Tail(t))
    ELSE ord(Head(s)) < ord(Head(t))

\* sorted(set_of_texts)
RECURSIVE sorted(_)
sorted(texts) ==
    IF texts = {} THEN << >>
    ELSE LET least == CHOOSE s \in texts : \A t \in texts \ {s} : TextLess(s, t)
         IN <<least>> \o sorted(texts \ {least})

\* list.index(x)
index(seq, x) == CHOOSE i \in DOMAIN seq : seq[i] = x /\ \A j \in 1..(i - 1) : seq[j] # x

\* ------------------------------------------------------------ ImageLoader
\* A thread is a record: where its run() stands (pc, named by source line)
\* and its stop flag. `widget` is the ImageWidget its signal is connected to
\* (the lambda of lines 732-733), `gen` the display that started it.
ImageLoader(id, url, widget, gen) ==
    [id |-> id, url |-> url, identifier |-> url, widget |-> widget,
     gen |-> gen, pc |-> "line110", _is_running |-> TRUE]

\* QThread.isRunning(): from start() until run() has returned
\* a loader taken for finished whatever it does
isRunning_never(loader) == FALSE
isRunning(loader) == loader.pc # "done"

\* one step of run() (lines 109-136); fetched says whether requests.get
\* returned or raised
run_step(loader, fetched) ==
    [loader EXCEPT !.pc =
        CASE @ = "line110" -> IF ~loader._is_running THEN "done" ELSE "line114"
          [] @ = "line114" -> IF fetched THEN "line115" ELSE "done"
          [] @ = "line115" -> IF ~loader._is_running THEN "done" ELSE "line122"
          [] @ = "line122" -> IF ~loader._is_running THEN "done" ELSE "line133"
          [] @ = "line133" -> IF loader._is_running THEN "line134" ELSE "done"
          [] OTHER         -> "done"]

\* image_loaded.emit(identifier, pixmap) of line 134 as it is queued for the
\* main thread; after_stop says the stop flag was already down
Signal(loader) ==
    [identifier |-> loader.identifier, widget |-> loader.widget,
     after_stop |-> ~loader._is_running]

\* the signals a step emits
step_signals(loader) == IF loader.pc = "line134" THEN {Signal(loader)} ELSE {}

\* n steps of a thread, or as many as it has left: the thread it leaves and
\* what it emitted
RECURSIVE run_steps(_, _)
run_steps(loader, n) ==
    IF n = 0 \/ loader.pc = "done"
    THEN [loader |-> loader, signals |-> {}]
    ELSE LET rest == run_steps(run_step(loader, TRUE), n - 1)
         IN [loader |-> rest.loader,
             signals |-> step_signals(loader) \cup rest.signals]

\* the steps run() has at most
RunLength == 6

\* lines 105-107: stop() lowers the flag and wait() blocks the caller until
\* run() has returned
stop(loader) == run_steps([loader EXCEPT !._is_running = FALSE], RunLength)

\* --------------------------------------------------------------- the window
VARIABLES
    platforms,            \* GameBrowser.platforms: the platform names loaded
    platform_combo,       \* current text of platform_combo
    game_results_combo,   \* items, current index (0 = none), visibility
    current_games,        \* GameBrowser.current_games
    selected_game_id,     \* GameBrowser.selected_game_id, 0 = attribute unset
    name_label,           \* details_labels['Name']
    cover_groups,         \* GameBrowser.cover_groups, and whether it is set
    region_code_combo,    \* items and current index
    scan_type_combo,      \* items and current index
    image_layout,         \* the widgets of image_layout in order
    image_loaders,        \* GameBrowser.image_loaders: ids of threads
    loaders,              \* the threads that exist: id -> thread
    signals,              \* image_loaded signals queued for the main thread
    made,                 \* ImageWidgets and ImageLoaders made so far
    displays,             \* display_covers_for_region calls that made widgets
    custom_region_input,
    custom_image_url,
    variant_combo,
    quantity_input,
    location_input,
    custom_tags_input,
    touched,              \* inputs the user set since a game or region chosen
                          \* before was changed for another
    handled,              \* the latest handler run and whether its request failed
    steps                 \* user actions so far

widget_vars == <<custom_region_input, custom_image_url, variant_combo,
                 quantity_input, location_input, custom_tags_input>>

gui_vars == <<platforms, platform_combo, game_results_combo, current_games,
              selected_game_id, name_label, cover_groups, region_code_combo,
              scan_type_combo, image_layout, image_loaders, loaders, signals,
              made, displays>>

history_vars == <<touched, handled, steps>>

\* a QComboBox
Combo(items, current) == [items |-> items, current |-> current]
EmptyCombo == Combo(<< >>, 0)
currentText(combo) == IF combo.current = 0 THEN << >> ELSE combo.items[combo.current]

Searching       == <<"Searching...">>
NoGamesFound    == <<"No games found">>
SelectCoverType == <<"Select cover type...">>
NoRegions       == <<"No regions available">>

\* line 893: f"{game['title']} (ID: {game['game_id']})"
display_text(game) == game.title \o <<" (ID: ">> \o str(game.game_id) \o <<")">>

\* line 845: current_text.split("(ID: ")[-1].rstrip(")")
RECURSIVE rstrip_paren(_)
rstrip_paren(s) ==
    IF s # << >> /\ s[Len(s)] = ")"
    THEN rstrip_paren(SubSeq(s, 1, Len(s) - 1)) ELSE s

game_id_str(text) ==
    IF \E i \in DOMAIN text : text[i] = " (ID: "
    THEN LET k == CHOOSE i \in DOMAIN text :
                      text[i] = " (ID: " /\ \A j \in (i + 1)..Len(text) : text[j] # " (ID: "
         IN rstrip_paren(SubSeq(text, k + 1, Len(text)))
    ELSE rstrip_paren(text)

\* the games of a list whose id prints as the given text (lines 848, 946)
matching(games, id_text) == SelectSeq(games, LAMBDA g : str(g.game_id) = id_text)

\* the window and the api object as one value, handed from handler to
\* handler; net lists how the server answers the requests still to come,
\* advance how many steps a thread takes right after start(); failed and
\* changed note that a catalog request raised and that on_game_selected or
\* on_region_changed ran
Window ==
    [api |-> ApiState, ret |-> ret, ret_prev |-> ret_prev, calls |-> calls,
     platforms |-> platforms, platform_combo |-> platform_combo,
     game_results_combo |-> game_results_combo,
     current_games |-> current_games, selected_game_id |-> selected_game_id,
     name_label |-> name_label, cover_groups |-> cover_groups,
     region_code_combo |-> region_code_combo,
     scan_type_combo |-> scan_type_combo, image_layout |-> image_layout,
     image_loaders |-> image_loaders, loaders |-> loaders,
     signals |-> signals, made |-> made, displays |-> displays,
     net |-> << >>, advance |-> 0, failed |-> FALSE, changed |-> FALSE]

Shown(w) ==
    /\ now' = w.api.now
    /\ last_request_time' = w.api.last_request_time
    /\ cache' = w.api.cache
    /\ sent_at' = w.api.sent_at
    /\ sent_before' = w.api.sent_before
    /\ ret' = w.ret
    /\ ret_prev' = w.ret_prev
    /\ calls' = w.calls
    /\ platforms' = w.platforms
    /\ platform_combo' = w.platform_combo
    /\ game_results_combo' = w.game_results_combo
    /\ current_games' = w.current_games
    /\ selected_game_id' = w.selected_game_id
    /\ name_label' = w.name_label
    /\ cover_groups' = w.cover_groups
    /\ region_code_combo' = w.region_code_combo
    /\ scan_type_combo' = w.scan_type_combo
    /\ image_layout' = w.image_layout
    /\ image_loaders' = w.image_loaders
    /\ loaders' = w.loaders
    /\ signals' = w.signals
    /\ made' = w.made
    /\ displays' = w.displays

\* self.api._make_request as a handler meets it: the answer of the server
\* is the head of net
request(w, req) ==
    LET outcome == make_request(w.api, req, Head(w.net), 1)
    IN [w EXCEPT !.api = outcome.api, !.ret_prev = w.ret, !.ret = outcome.ret,
                 !.calls = @ + 1, !.net = Tail(@)]

\* whether the latest request returned or raised
returned(w) == w.ret.kind \in {"hit", "fetched"}

\* ---------------------------------------------------------------- handlers
\* Each handler is a function from the window it finds to the window it
\* leaves; a signal a handler raises runs the connected slot in place, as
\* Qt does for a direct connection.

\* the threads left once those of `ids` that have finished are let go
alive(threads, ids) ==
    LET gone == {id \in DOMAIN threads : id \in ids /\ threads[id].pc = "done"}
    IN [id \in DOMAIN threads \ gone |-> threads[id]]

\* lines 600-606
stop_image_loaders(w) ==
    LET listed  == {id \in Range(w.image_loaders) : id \in DOMAIN w.loaders}
        running == {id \in listed : isRunning(w.loaders[id])}
        stopped == [id \in running |-> stop(w.loaders[id])]
        after   == [id \in DOMAIN w.loaders |->
                       IF id \in running THEN stopped[id].loader ELSE w.loaders[id]]
    IN [w EXCEPT !.loaders = alive(after, listed),
                 !.signals = @ \cup UNION {stopped[id].signals : id \in running},
                 !.image_loaders = << >>]

\* lines 764-771
clear_images(w) == [stop_image_loaders(w) EXCEPT !.image_layout = << >>]

\* lines 696-707 for one group: the covers kept, each given the countries of
\* its group (line 706)
filtered_of(group, selected_region, selected_scan_type) ==
    IF selected_region \in Range(group.countries)
    THEN LET kept == SelectSeq(group.covers, LAMBDA cover :
                         ~(selected_scan_type # << >> /\ cover.scan_of # selected_scan_type))
         IN [i \in DOMAIN kept |-> [kept[i] EXCEPT !.countries = group.countries]]
    ELSE << >>

\* line 706 as it changes the covers held by cover_groups
marked(group, selected_region, selected_scan_type) ==
    IF selected_region \in Range(group.countries)
    THEN [group EXCEPT !.covers =
             [i \in DOMAIN group.covers |->
                 IF selected_scan_type # << >> /\ group.covers[i].scan_of # selected_scan_type
                 THEN group.covers[i]
                 ELSE [group.covers[i] EXCEPT !.countries = group.countries]]]
    ELSE group

ImageWidget(id, image_url, image_type, region) ==
    [id |-> id, kind |-> "image", image_url |-> image_url,
     image_type |-> image_type, region |-> region, checked |-> FALSE,
     pixmap |-> << >>]

\* the QLabel of lines 743-746
no_covers_label(message) ==
    [id |-> 0, kind |-> "label", image_url |-> << >>, image_type |-> << >>,
     region |-> message, checked |-> FALSE, pixmap |-> << >>]

\* lines 692-746: the covers of the region laid out in the cleared window w1
show_covers(w1, selected_region, selected_scan_type) ==
    LET groups == w1.cover_groups.value
        filtered_covers ==
            Flatten([g \in DOMAIN groups |->
                        filtered_of(groups[g], selected_region, selected_scan_type)])
        n == Len(filtered_covers)
        started == [i \in 1..n |->
                       run_steps(ImageLoader(w1.made + i, filtered_covers[i].image,
                                             w1.made + i, w1.displays + 1),
                                 w1.advance)]
    IN IF ~w1.cover_groups.hasattr \/ selected_region = << >>
       THEN w1
       ELSE IF n = 0
       THEN [w1 EXCEPT !.image_layout = @ \o <<no_covers_label(
                           <<"No covers found for region ">> \o selected_region
                           \o (IF selected_scan_type # << >>
                               THEN <<" and type ">> \o selected_scan_type
                               ELSE << >>))>>]
       ELSE [w1 EXCEPT
               !.cover_groups.value =
                   [g \in DOMAIN groups |->
                       marked(groups[g], selected_region, selected_scan_type)],
               !.image_layout =
                   @ \o [i \in 1..n |->
                       ImageWidget(w1.made + i, filtered_covers[i].image,
                                   filtered_covers[i].scan_of,
                                   join(<<",", " ">>, filtered_covers[i].countries))],
               !.image_loaders = [i \in 1..n |-> w1.made + i],
               !.loaders =
                   [id \in {w1.made + i : i \in 1..n} |->
                       started[id - w1.made].loader] @@ w1.loaders,
               !.signals = @ \cup UNION {started[i].signals : i \in 1..n},
               !.made = @ + n,
               !.displays = @ + 1]

\* lines 684-746
display_covers_for_region(w, selected_region, selected_scan_type) ==
    show_covers(clear_images(stop_image_loaders(w)), selected_region,
                selected_scan_type)

\* lines 674-682
on_region_changed(w, region) ==
    IF w.cover_groups.hasattr /\ currentText(w.scan_type_combo) # SelectCoverType
    THEN display_covers_for_region([w EXCEPT !.changed = TRUE], region,
                                   currentText(w.scan_type_combo))
    ELSE clear_images([w EXCEPT !.changed = TRUE])

\* lines 817-824
on_scan_type_changed(w, scan_type) ==
    IF scan_type = SelectCoverType THEN w
    ELSE IF w.cover_groups.hasattr /\ currentText(w.region_code_combo) # << >>
    THEN display_covers_for_region(w, currentText(w.region_code_combo), scan_type)
    ELSE w

\* region_code_combo given new items or a new index: currentTextChanged
\* (line 465) runs on_region_changed when the current text changes
region_code_combo_set(w, combo) ==
    LET w1 == [w EXCEPT !.region_code_combo = combo]
    IN IF currentText(combo) # currentText(w.region_code_combo)
       THEN on_region_changed(w1, currentText(combo))
       ELSE w1

\* the same for scan_type_combo (line 471)
scan_type_combo_set(w, combo) ==
    LET w1 == [w EXCEPT !.scan_type_combo = combo]
    IN IF currentText(combo) # currentText(w.scan_type_combo)
       THEN on_scan_type_changed(w1, currentText(combo))
       ELSE w1

\* line 658
preferred_regions == <<UnitedStates, Australia, Europe, Japan>>

\* lines 633-672
populate_regions(w, covers) ==
    LET groups == cover_groups_of(covers)
        unique_regions == UNION {Range(groups[g].countries) : g \in DOMAIN groups}
        sorted_regions == sorted(unique_regions)
        preferred == SelectSeq(preferred_regions, LAMBDA region : region \in unique_regions)
        w1 == [w EXCEPT !.cover_groups = [hasattr |-> TRUE, value |-> groups]]
        w2 == region_code_combo_set(w1, EmptyCombo)
        w3 == IF unique_regions # {}
              THEN region_code_combo_set(
                       region_code_combo_set(w2, Combo(sorted_regions, 1)),
                       Combo(sorted_regions,
                             IF preferred # << >>
                             THEN index(sorted_regions, preferred[1]) ELSE 1))
              ELSE region_code_combo_set(w2, Combo(<<NoRegions>>, 1))
    IN clear_images(w3)

\* lines 571-593
populate_scan_types(w) ==
    LET groups == w.cover_groups.value
        unique_scan_types ==
            UNION {{groups[g].covers[i].scan_of : i \in DOMAIN groups[g].covers}
                       : g \in DOMAIN groups} \ {<< >>}
        w1 == scan_type_combo_set(w, EmptyCombo)
        w2 == scan_type_combo_set(w1, Combo(<<SelectCoverType>>, 1))
        w3 == [w2 EXCEPT !.scan_type_combo =
                  Combo(<<SelectCoverType>> \o sorted(unique_scan_types), 1)]
    IN clear_images(w3)

\* what a handler leaves when its try block raised
raised(w) == [w EXCEPT !.failed = TRUE]

\* lines 789-812: the window w1 after the covers were asked for
show_game_details(w1) ==
    LET found == SelectSeq(w1.current_games,
                           LAMBDA g : g.game_id = w1.selected_game_id)
    IN IF ~returned(w1) THEN raised(w1)
       ELSE IF found = << >> THEN w1
       ELSE clear_images(populate_scan_types(populate_regions(
                [w1 EXCEPT !.name_label = <<"Name: ">> \o found[1].title],
                w1.ret.value)))

\* lines 778-815
load_game_details(w) ==
    IF w.selected_game_id = 0 THEN w
    ELSE IF w.platform_combo \notin DOMAIN w.platforms THEN w
    ELSE show_game_details(
             request(w, get_game_platform_covers(w.selected_game_id,
                                                 w.platforms[w.platform_combo])))

\* lines 837-862
on_game_selected(w, text) ==
    IF text = << >> \/ text \in {Searching, NoGamesFound} THEN w
    ELSE LET found == matching(w.current_games,
                               game_id_str(currentText(w.game_results_combo)))
         IN IF found = << >> THEN w
            ELSE load_game_details(
                     clear_images([w EXCEPT !.selected_game_id = found[1].game_id,
                                            !.name_label = << >>,
                                            !.changed = TRUE]))

\* game_results_combo given new items or a new index: currentTextChanged
\* (line 459) runs on_game_selected when the current text changes
game_results_combo_set(w, items, current) ==
    LET combo == [w.game_results_combo EXCEPT !.items = items, !.current = current]
        w1 == [w EXCEPT !.game_results_combo = combo]
    IN IF currentText(combo) # currentText(w.game_results_combo)
       THEN on_game_selected(w1, currentText(combo))
       ELSE w1

\* lines 886-891: the games found put into the emptied combo of window w3;
\* the first item added becomes the current one
add_games(w3, search_results) ==
    LET texts == [i \in DOMAIN search_results |-> display_text(search_results[i])]
    IN [game_results_combo_set([w3 EXCEPT !.current_games = search_results],
                               <<texts[1]>>, 1)
           EXCEPT !.game_results_combo.items = texts]

\* lines 879-899: the window w2 after the search was sent
show_search_results(w2) ==
    IF ~returned(w2)
    THEN raised([w2 EXCEPT !.game_results_combo.visible = FALSE])
    ELSE IF games_of(w2.ret.value) = << >>
    THEN game_results_combo_set(game_results_combo_set(w2, << >>, 0),
                                <<NoGamesFound>>, 1)
    ELSE add_games(game_results_combo_set(w2, << >>, 0), games_of(w2.ret.value))

\* the combo of window w made visible (line 874)
game_results_combo_shown(w) == [w EXCEPT !.game_results_combo.visible = TRUE]

\* lines 864-899, for a search term already stripped
search_games(w, search_term) ==
    IF search_term = << >> \/ w.platform_combo = << >> THEN w
    ELSE IF w.platform_combo \notin DOMAIN w.platforms
    THEN [w EXCEPT !.game_results_combo.visible = FALSE]
    ELSE show_search_results(
             request(game_results_combo_shown(
                         game_results_combo_set(
                             game_results_combo_set(w, << >>, 0), <<Searching>>, 1)),
                     search_games_by_platform(w.platforms[w.platform_combo],
                                              search_term)))

\* lines 608-631
load_platforms(w) ==
    LET w1 == request(w, get_platforms)
        loaded == platforms_of(w1.ret.value)
    IN IF ~returned(w1) THEN raised(w1)
       ELSE [w1 EXCEPT
               !.platforms = [name \in {loaded[i].platform_name : i \in DOMAIN loaded} |->
                                 (CHOOSE p \in Range(loaded) : p.platform_name = name).platform_id],
               !.platform_combo = << >>]

\* ----------------------------------------------------------------- events
InStoreReservoir == <<"In-Store Reservoir">>

InitWindow ==
    /\ platforms = << >>
    /\ platform_combo = << >>
    /\ game_results_combo = [items |-> << >>, current |-> 0, visible |-> FALSE]
    /\ current_games = << >>
    /\ selected_game_id = 0
    /\ name_label = << >>
    /\ cover_groups = [hasattr |-> FALSE, value |-> << >>]
    /\ region_code_combo = EmptyCombo
    /\ scan_type_combo = EmptyCombo
    /\ image_layout = << >>
    /\ image_loaders = << >>
    /\ loaders = << >>
    /\ signals = {}
    /\ made = 0
    /\ displays = 0
    /\ custom_region_input = << >>
    /\ custom_image_url = << >>
    /\ variant_combo = variants[1]
    /\ quantity_input = <<"0">>
    /\ location_input = InStoreReservoir
    /\ custom_tags_input = << >>
    /\ touched = {}
    /\ handled = [handler |-> "none", failed |-> FALSE, changed |-> FALSE]
    /\ steps = 0

\* whether window w shows another game or region than the one chosen before
switched(w) ==
    /\ selected_game_id # 0
    /\ \/ w.selected_game_id # selected_game_id
       \/ currentText(w.region_code_combo) # currentText(region_code_combo)

\* a handler of the main thread has run and left window w
Handled(name, w) ==
    /\ Shown(w)
    /\ handled' = [handler |-> name, failed |-> w.failed, changed |-> w.changed]
    /\ touched' = IF switched(w) THEN {} ELSE touched
    /\ steps' = steps + 1
    /\ UNCHANGED widget_vars

\* how far a thread gets while the handler that started it goes on: not
\* started, past its last check, or done
Advances == {0, 4, RunLength}

\* line 436, the last statement of GameBrowser.__init__
startup(upstream) ==
    /\ handled.handler = "none"
    /\ Handled("load_platforms", load_platforms([Window EXCEPT !.net = <<upstream>>]))

\* lines 748-762
refresh_cache(upstream) ==
    /\ handled.handler # "none"
    /\ Handled("refresh_cache",
               load_platforms([Window EXCEPT !.api.cache = << >>,
                                             !.net = <<upstream>>]))

\* the user picks a platform of platform_combo
pick_platform(name) ==
    /\ handled.handler # "none"
    /\ name \in DOMAIN platforms
    /\ name # platform_combo
    /\ Handled("pick_platform", [Window EXCEPT !.platform_combo = name])

\* the user types a term into game_search and presses Enter (line 453)
press_enter(search_term, net, advance) ==
    /\ handled.handler # "none"
    /\ Handled("search_games",
               search_games([Window EXCEPT !.net = net, !.advance = advance],
                            search_term))

\* the user picks the k-th item of game_results_combo
pick_game(k, upstream, advance) ==
    /\ game_results_combo.visible
    /\ k \in DOMAIN game_results_combo.items
    /\ k # game_results_combo.current
    /\ Handled("on_game_selected",
               game_results_combo_set(
                   [Window EXCEPT !.net = <<upstream>>, !.advance = advance],
                   game_results_combo.items, k))

\* the user picks the k-th item of region_code_combo
pick_region(k, advance) ==
    /\ k \in DOMAIN region_code_combo.items
    /\ k # region_code_combo.current
    /\ Handled("on_region_changed",
               region_code_combo_set([Window EXCEPT !.advance = advance],
                                     Combo(region_code_combo.items, k)))

\* the user picks the k-th item of scan_type_combo
pick_scan_type(k, advance) ==
    /\ k \in DOMAIN scan_type_combo.items
    /\ k # scan_type_combo.current
    /\ Handled("on_scan_type_changed",
               scan_type_combo_set([Window EXCEPT !.advance = advance],
                                   Combo(scan_type_combo.items, k)))

\* the user ticks or unticks the checkbox of the i-th widget
tick_checkbox(i) ==
    /\ i \in DOMAIN image_layout
    /\ image_layout[i].kind = "image"
    /\ image_layout' = [image_layout EXCEPT ![i].checked = ~@]
    /\ touched' = touched \cup {"image"}
    /\ handled' = [handler |-> "checkbox", failed |-> FALSE, changed |-> FALSE]
    /\ steps' = steps + 1
    /\ UNCHANGED <<api_vars, widget_vars, platforms, platform_combo,
                   game_results_combo, current_games, selected_game_id,
                   name_label, cover_groups, region_code_combo, scan_type_combo,
                   image_loaders, loaders, signals, made, displays>>

\* what the user may have typed into the inputs below the covers
Entries ==
    {[custom_region |-> <<"E", "U">>, custom_image_url |-> Custom,
      variant |-> variants[13], quantity |-> <<"2">>, location |-> Shelf,
      custom_tags |-> <<"r", "a", "r", "e">>],
     [custom_region |-> << >>, custom_image_url |-> << >>,
      variant |-> variants[2], quantity |-> <<"1">>, location |-> Shelf,
      custom_tags |-> << >>]}

\* the user fills the inputs
type_inputs(entry) ==
    /\ handled.handler # "none"
    /\ custom_region_input' = entry.custom_region
    /\ custom_image_url' = entry.custom_image_url
    /\ variant_combo' = entry.variant
    /\ quantity_input' = entry.quantity
    /\ location_input' = entry.location
    /\ custom_tags_input' = entry.custom_tags
    /\ <<custom_region_input, custom_image_url, variant_combo, quantity_input,
         location_input, custom_tags_input>>
           # <<entry.custom_region, entry.custom_image_url, entry.variant,
               entry.quantity, entry.location, entry.custom_tags>>
    /\ touched' = touched \cup {"inputs"}
    /\ handled' = [handler |-> "inputs", failed |-> FALSE, changed |-> FALSE]
    /\ steps' = steps + 1
    /\ UNCHANGED <<api_vars, gui_vars>>

\* lines 914-918: the URL of the first ticked ImageWidget, if any
checked_image_url ==
    LET ticked == SelectSeq(image_layout, LAMBDA widget :
                                widget.kind = "image" /\ widget.checked)
    IN IF ticked = << >> THEN << >> ELSE ticked[1].image_url

\* the widgets as export_to_csv reads them (lines 909-950, 1016)
WidgetSelection ==
    LET text  == currentText(game_results_combo)
        found == matching(current_games, game_id_str(text))
        game  == IF text = << >> THEN NoGameText
                 ELSE IF found = << >> THEN Placeholder
                 ELSE Game(found[1].title)
    IN [Selection(game, platform_combo, currentText(region_code_combo),
                  custom_region_input, checked_image_url, custom_image_url,
                  location_input, quantity_input, variant_combo)
           EXCEPT !.custom_tags = custom_tags_input]

\* the user clicks export_button (line 555)
click_export ==
    /\ handled.handler # "none"
    /\ export_to_csv(WidgetSelection, "none", 0)
    /\ UNCHANGED <<api_vars, gui_vars, widget_vars, history_vars>>

\* one step of a loader thread
run(id, fetched) ==
    /\ id \in DOMAIN loaders
    /\ loaders[id].pc # "done"
    /\ ~fetched => loaders[id].pc = "line114"
    /\ loaders' = alive([loaders EXCEPT ![id] = run_step(@, fetched)],
                        {id} \ Range(image_loaders))
    /\ signals' = signals \cup step_signals(loaders[id])
    /\ UNCHANGED <<api_vars, widget_vars, history_vars, platforms,
                   platform_combo, game_results_combo, current_games,
                   selected_game_id, name_label, cover_groups,
                   region_code_combo, scan_type_combo, image_layout,
                   image_loaders, made, displays>>

\* lines 826-835: a queued image_loaded signal reaches its slot, which sets
\* the pixmap of the widget the lambda of lines 732-733 was given
\* the slot looking its widget up by the file name it is handed
on_image_loaded_new_by_filename(signal) ==
    /\ signal \in signals
    /\ signals' = signals \ {signal}
    /\ image_layout' =
           [i \in DOMAIN image_layout |->
               IF image_layout[i].image_url = signal.identifier
               THEN [image_layout[i] EXCEPT !.pixmap = signal.identifier]
               ELSE image_layout[i]]
    /\ handled' = [handler |-> "on_image_loaded_new", failed |-> FALSE, changed |-> FALSE]
    /\ UNCHANGED <<api_vars, widget_vars, touched, steps, platforms,
                   platform_combo, game_results_combo, current_games,
                   selected_game_id, name_label, cover_groups,
                   region_code_combo, scan_type_combo, image_loaders, loaders,
                   made, displays>>
on_image_loaded_new(signal) ==
    /\ signal \in signals
    /\ signals' = signals \ {signal}
    /\ image_layout' =
           [i \in DOMAIN image_layout |->
               IF image_layout[i].id = signal.widget
               THEN [image_layout[i] EXCEPT !.pixmap = signal.identifier]
               ELSE image_layout[i]]
    /\ handled' = [handler |-> "on_image_loaded_new", failed |-> FALSE, changed |-> FALSE]
    /\ UNCHANGED <<api_vars, widget_vars, touched, steps, platforms,
                   platform_combo, game_results_combo, current_games,
                   selected_game_id, name_label, cover_groups,
                   region_code_combo, scan_type_combo, image_loaders, loaders,
                   made, displays>>

window_vars == <<gui_vars, widget_vars, history_vars>>

\* --------------------------------------------------- get_games_by_platform
\* One call of get_games_by_platform (lines 299-327).  A response is what
\* _make_request returns for a page: how many games it lists and what it
\* holds under 'total_count' (nothing, null or a number).  The games of a
\* page are numbered by their place in the catalog.
VARIABLES
    paging_pc,      \* "idle", "line305" (about to ask for a page) or "line327"
    all_games,      \* the local all_games
    offset,         \* the local offset
    total,          \* the local total: None, or a number
    pages,          \* the pages the call was answered with, in order
    requests        \* the page requests the call has made

paging_vars == <<paging_pc, all_games, offset, total, pages, requests>>

\* 'limit': 100 of line 309
limit == 100

None == [is_none |-> TRUE, value |-> 0]
Number(n) == [is_none |-> FALSE, value |-> n]

\* response.get('total_count', 0) of line 318
total_count_of(response) ==
    CASE response.total_count.kind = "missing" -> Number(0)
      [] response.total_count.kind = "null"    -> None
      [] OTHER -> Number(response.total_count.value)

\* response.get('games', []) of line 314, for a page asked at the offset
games_at(response, at) == [i \in 1..response.games |-> at + i]

\* the test of the while loop (line 305)
goes_on(total_now, offset_now) ==
    total_now.is_none \/ offset_now < total_now.value

InitPaging ==
    /\ paging_pc = "idle"
    /\ all_games = << >>
    /\ offset = 0
    /\ total = None
    /\ pages = << >>
    /\ requests = 0

\* lines 301-303: the call starts; the first test of line 305 passes as
\* total is None
get_games_by_platform ==
    /\ paging_pc = "idle"
    /\ paging_pc' = "line305"
    /\ all_games' = << >>
    /\ offset' = 0
    /\ total' = None
    /\ pages' = << >>
    /\ requests' = 0

\* lines 306-325 and the test of line 305 that follows: one page asked for
\* and taken in
get_page(response) ==
    LET page      == games_at(response, offset)
        total_now == IF total.is_none THEN total_count_of(response) ELSE total
    IN /\ paging_pc = "line305"
       /\ requests < MaxPages
       /\ requests' = requests + 1
       /\ pages' = Append(pages, page)
       /\ all_games' = all_games \o page
       /\ total' = total_now
       /\ offset' = offset + Len(page)
       /\ paging_pc' = IF Len(page) < limit THEN "line327"
                       ELSE IF goes_on(total_now, offset + Len(page)) THEN "line305"
                       ELSE "line327"

\* line 327: the call returns all_games and the next call may start
return_all_games ==
    /\ paging_pc = "line327"
    /\ paging_pc' = "idle"
    /\ UNCHANGED <<all_games, offset, total, pages, requests>>

vars == <<export_vars, api_vars, window_vars, paging_vars>>

Init ==
    /\ product_file = NoFile
    /\ inventory_file = NoFile
    /\ attempts = 0
    /\ last = NoCall
    /\ prev = NoCall
    /\ pre_product = NoFile
    /\ pre_inventory = NoFile
    /\ clean = TRUE
    /\ InitAPI
    /\ InitWindow
    /\ InitPaging

\* exports on a disk that does not fail
Next ==
    /\ \E sel \in Selections : export_to_csv(sel, "none", 0)
    /\ UNCHANGED <<api_vars, window_vars, paging_vars>>

Spec == Init /\ [][Next]_vars

\* exports on a disk that may fail at any file operation
IOSelections ==
    {Valid(t, Cover, << >>, <<"1">>, variants[1]) :
        t \in {<<"A", " ", "b">>, <<"a", "&", "b">>}}

NextIO ==
    \E sel \in IOSelections, fault \in Faults, flushed \in 0..MaxFlushed :
        export_to_csv(sel, fault, flushed) /\ UNCHANGED <<api_vars, window_vars, paging_vars>>

SpecIO == Init /\ [][NextIO]_vars

\* exports that draw the title, platform and region of the handle widely:
\* every title up to MaxTitleLen over an alphabet with both letter cases, the
\* blank, the hyphen, "&" and a character the slug drops
HandleAlphabet == {"A", "a", " ", "-", "&", "!"}

HandleTitles ==
    UNION {[1..k -> HandleAlphabet] : k \in 1..MaxTitleLen}
    \cup Titles \cup {<<"a", "!", "b">>}

ChronoTrigger  == <<"C","h","r","o","n","o"," ","T","r","i","g","g","e","r">>
SuperNintendo  == <<"S","u","p","e","r"," ","N","i","n","t","e","n","d","o">>

HandleSelections ==
    {Valid(t, Cover, << >>, <<"1">>, variants[13]) : t \in HandleTitles}
    \cup {Selection(Game(ChronoTrigger), SuperNintendo, UnitedStates, << >>,
                    Cover, << >>, Shelf, <<"1">>, variants[13]),
          Selection(Game(<<"a", "-", "B">>), <<"n", "6", "4">>, US,
                    <<" ", "u", "s", " ">>, Cover, << >>, Shelf, <<"1">>,
                    variants[13])}

\* a pair of exports: the second meets the files the first one left
NextHandle ==
    /\ attempts < 2
    /\ \E sel \in HandleSelections : export_to_csv(sel, "none", 0)
    /\ UNCHANGED <<api_vars, window_vars, paging_vars>>

SpecHandle == Init /\ [][NextHandle]_vars

\* one export whose title and location are drawn over a letter, the comma
\* and the double quote
QuoteAlphabet == {"a", ",", "\""}

QuoteTexts == UNION {[1..k -> QuoteAlphabet] : k \in 1..MaxFieldLen}

QuoteSelections ==
    {Selection(Game(t), N64, US, << >>, Cover, << >>, l, <<"1">>, variants[1]) :
        t \in QuoteTexts, l \in QuoteTexts}

NextQuote ==
    /\ attempts < 1
    /\ \E sel \in QuoteSelections : export_to_csv(sel, "none", 0)
    /\ UNCHANGED <<api_vars, window_vars, paging_vars>>

SpecQuote == Init /\ [][NextQuote]_vars

\* a pair of exports that draw the selected region and the override: each
\* empty, blank or set, the override also with blanks around it
RegionSelections ==
    {Selection(Game(<<"A", " ", "b">>), N64, region, custom_region, Cover, << >>,
               Shelf, <<"1">>, variants[1]) :
        region \in {<< >>, US, UnitedStates},
        custom_region \in {<< >>, <<" ">>, <<"j", "p">>, <<" ", "j", "p", " ">>}}

NextRegion ==
    /\ attempts < 2
    /\ \E sel \in RegionSelections : export_to_csv(sel, "none", 0)
    /\ UNCHANGED <<api_vars, window_vars, paging_vars>>

SpecRegion == Init /\ [][NextRegion]_vars

\* calls of get_games_by_platform answered by a server that is free in the
\* size of every page and in what it reports as total_count
PageSizes == {0, 1, limit - 1, limit}

TotalCounts ==
    {[kind |-> "missing", value |-> 0], [kind |-> "null", value |-> 0]}
    \cup {[kind |-> "int", value |-> n] : n \in {0, limit, limit + 50, 2 * limit + 50}}

Responses == [games : PageSizes, total_count : TotalCounts]

NextPaging ==
    \/ /\ get_games_by_platform
       /\ UNCHANGED <<export_vars, api_vars, window_vars>>
    \/ /\ \E response \in Responses : get_page(response)
       /\ UNCHANGED <<export_vars, api_vars, window_vars>>
    \/ /\ return_all_games
       /\ UNCHANGED <<export_vars, api_vars, window_vars>>

SpecPaging == Init /\ [][NextPaging]_vars

\* the catalog calls of one session: calls at any time, cache refreshes
APIRequests ==
    {get_platforms, search_games_by_platform(1, <<"a">>),
     get_game_platform_covers(1, 1)}

Revisions == {1, 2}

NextAPI ==
    \/ /\ \E endpoint_params \in APIRequests, upstream \in Upstream, revision \in Revisions :
              _make_request(endpoint_params, upstream, revision)
       /\ UNCHANGED <<export_vars, window_vars, paging_vars>>
    \/ /\ calls < MaxCalls
       /\ now <= MaxTime
       /\ \E upstream \in Upstream : startup(upstream)
       /\ UNCHANGED <<export_vars, paging_vars>>
    \/ /\ calls < MaxCalls
       /\ now <= MaxTime
       /\ \E upstream \in Upstream : refresh_cache(upstream)
       /\ UNCHANGED <<export_vars, paging_vars>>
    \/ Pass /\ UNCHANGED <<export_vars, window_vars, paging_vars>>

SpecAPI == Init /\ [][NextAPI]_vars

\* a pair of catalog calls drawn widely: every search term up to MaxTermLen
\* over a letter and the characters the cache file name treats specially
TermAlphabet == {"a", "?", "_", "/"}

SearchTerms == UNION {[1..k -> TermAlphabet] : k \in 1..MaxTermLen}

PathRequests ==
    {search_games_by_platform(1, term) : term \in SearchTerms}
    \cup {get_game_platform_covers(game_id, 1) : game_id \in 1..2}
    \cup {get_platforms}

NextPaths ==
    /\ calls < 2
    /\ \E endpoint_params \in PathRequests, upstream \in Upstream :
           _make_request(endpoint_params, upstream, 1)
    /\ UNCHANGED <<export_vars, window_vars, paging_vars>>

SpecPaths == Init /\ [][NextPaths]_vars

\* one session at the window while the loader threads run: the user
\* searches and picks, the server may fail, the threads step in between
SearchTermsTyped == {<<"a">>, <<"z">>}

NextGUI ==
    \/ /\ steps < MaxSteps
       /\ \E upstream \in Upstream : startup(upstream)
       /\ UNCHANGED <<export_vars, paging_vars>>
    \/ /\ steps < MaxSteps
       /\ \E name \in {N64} : pick_platform(name)
       /\ UNCHANGED <<export_vars, paging_vars>>
    \/ /\ steps < MaxSteps
       /\ \E search_term \in SearchTermsTyped, net \in Upstream \X Upstream,
             advance \in Advances : press_enter(search_term, net, advance)
       /\ made' <= MaxMade
       /\ UNCHANGED <<export_vars, paging_vars>>
    \/ /\ steps < MaxSteps
       /\ \E k \in 1..2, upstream \in Upstream, advance \in Advances :
             pick_game(k, upstream, advance)
       /\ made' <= MaxMade
       /\ UNCHANGED <<export_vars, paging_vars>>
    \/ /\ steps < MaxSteps
       /\ \E k \in 1..2, advance \in Advances : pick_region(k, advance)
       /\ made' <= MaxMade
       /\ UNCHANGED <<export_vars, paging_vars>>
    \/ /\ steps < MaxSteps
       /\ \E k \in 1..2, advance \in Advances : pick_scan_type(k, advance)
       /\ made' <= MaxMade
       /\ UNCHANGED <<export_vars, paging_vars>>
    \/ /\ \E id \in 1..MaxMade, fetched \in BOOLEAN : run(id, fetched)
       /\ UNCHANGED <<export_vars, paging_vars>>
    \/ /\ \E signal \in signals : on_image_loaded_new(signal)
       /\ UNCHANGED <<export_vars, paging_vars>>

SpecGUI == Init /\ [][NextGUI]_vars

\* one session of picking, ticking, typing and exporting: the server
\* answers, and no loader thread gets to run
NextSelection ==
    \/ /\ steps < MaxClicks
       /\ startup("ok")
       /\ UNCHANGED <<export_vars, paging_vars>>
    \/ /\ steps < MaxClicks
       /\ \E name \in {N64} : pick_platform(name)
       /\ UNCHANGED <<export_vars, paging_vars>>
    \/ /\ steps < MaxClicks
       /\ press_enter(<<"a">>, <<"ok", "ok">>, 0)
       /\ made' <= MaxCovers
       /\ UNCHANGED <<export_vars, paging_vars>>
    \/ /\ steps < MaxClicks
       /\ \E k \in 1..2 : pick_game(k, "ok", 0)
       /\ made' <= MaxCovers
       /\ UNCHANGED <<export_vars, paging_vars>>
    \/ /\ steps < MaxClicks
       /\ \E k \in 1..2 : pick_region(k, 0)
       /\ made' <= MaxCovers
       /\ UNCHANGED <<export_vars, paging_vars>>
    \/ /\ steps < MaxClicks
       /\ \E k \in 1..2 : pick_scan_type(k, 0)
       /\ made' <= MaxCovers
       /\ UNCHANGED <<export_vars, paging_vars>>
    \/ /\ steps < MaxClicks
       /\ \E i \in 1..2 : tick_checkbox(i)
       /\ UNCHANGED <<export_vars, paging_vars>>
    \/ /\ steps < MaxClicks
       /\ \E entry \in Entries : type_inputs(entry)
       /\ UNCHANGED <<export_vars, paging_vars>>
    \/ /\ click_export
       /\ UNCHANGED paging_vars

SpecSelection == Init /\ [][NextSelection]_vars

\* ================================================================== claims
Ok     == last.outcome = "ok"
PrevOk == prev.outcome = "ok"

\* the rows of product_import.csv that carry the product-level Title of h
ParentRows(file, h) ==
    LET c == ColumnOf(file.header, "Title")
    IN SelectSeq(RowsOf(file, h), LAMBDA cells : cells[c] # << >>)

\* the Handle cell of the last line of a file: the handle the latest
\* completed export wrote
WrittenHandle(file) == file.rows[Len(file.rows)][HandleColumn(file)]

\* C1: two successive successful exports under one handle with the same
\* variant V and the same quantity Q > 0 leave V with its quantity before
\* the first export plus 2Q in both Available and On hand, and every other
\* variant of the handle with its quantity before the first export.
C1_TwoExportsAddTwice ==
    (Ok /\ PrevOk /\ last.handle = prev.handle
        /\ last.input.variant = prev.input.variant
        /\ last.quantity = prev.quantity /\ last.quantity > 0)
    => \A i \in DOMAIN variants :
          LET expected == prev.prior[i] +
                  (IF variants[i] = last.input.variant THEN 2 * last.quantity ELSE 0)
          IN /\ Available(inventory_file, last.handle, variants[i]) = expected
             /\ OnHand(inventory_file, last.handle, variants[i]) = expected

\* C2: a successful export with quantity 0 leaves every variant of its handle
\* with the Available / On hand quantity it had before the export (0 when it
\* had no row).
C2_ZeroQuantityKeepsQuantities ==
    (Ok /\ last.quantity = 0)
    => \A i \in DOMAIN variants :
          /\ Available(inventory_file, last.handle, variants[i]) = last.prior[i]
          /\ OnHand(inventory_file, last.handle, variants[i]) = last.prior[i]

\* C3: a successful export under handle A leaves the rows of every other
\* handle as they were in both files: same cells, same relative order, none
\* added, dropped or duplicated.
C3_OtherHandlesUntouched ==
    Ok => /\ RowsNotOf(product_file, last.handle) = RowsNotOf(pre_product, last.handle)
          /\ RowsNotOf(inventory_file, last.handle) =
                 RowsNotOf(pre_inventory, last.handle)

C3_Witness ==
    /\ Ok
    /\ RowsNotOf(pre_product, last.handle) # << >>
    /\ RowsNotOf(pre_inventory, last.handle) # << >>

\* C4: after successful exports from absent files, every handle present has
\* exactly one inventory row per variant of the 13 and at most one product
\* row carrying the product-level Title.
C4_OneRowPerHandleAndVariant ==
    clean =>
        \A h \in HandlesIn(product_file) \cup HandlesIn(inventory_file) :
            /\ \A i \in DOMAIN variants :
                   Len(VariantRows(inventory_file, h, variants[i])) = 1
            /\ Len(RowsOf(inventory_file, h)) = Len(variants)
            /\ Len(ParentRows(product_file, h)) <= 1

C4_Witness ==
    /\ clean /\ Ok /\ PrevOk
    /\ last.handle = prev.handle
    /\ Len(variants) = 13
    /\ Cardinality(HandlesIn(inventory_file)) = 1

\* C5: after a successful export under handle H the rows of H in each file
\* are exactly the 13 rows this export built; no row of H from an earlier
\* export (an older title or image) remains.
C5_HandleRowsFullyReplaced ==
    Ok => /\ RowsOf(product_file, last.handle) =
                 WrittenFile(CSV_FIELDS,
                             new_product_rows(last.handle, last.title, last.tags,
                                              last.image)).rows
          /\ Len(RowsOf(inventory_file, last.handle)) = Len(variants)
          /\ \A i \in DOMAIN variants :
                LET cells == RowsOf(inventory_file, last.handle)[i]
                IN /\ cells[ColumnOf(inventory_fields, "Option1 Value")] = <<variants[i]>>
                   /\ cells[ColumnOf(inventory_fields, "Location")] = last.location

C5_Witness ==
    /\ Ok
    /\ ParentRows(pre_product, last.handle) # << >>
    /\ ParentRows(pre_product, last.handle)[1][ColumnOf(CSV_FIELDS, "Title")]
           # quote_field(last.title)

\* C6: an export whose input has no checked image and no custom image URL,
\* or a blank location, or a non-numeric quantity, touches no file: neither
\* file is read, created or modified.
MissingImage(sel)   == sel.checked_url = << >> /\ \A c \in Range(sel.custom_image_url) : c = " "
BlankLocation(sel)  == \A c \in Range(sel.location) : c = " "
NonNumeric(sel)     == \E c \in Range(sel.quantity) : c \notin DigitChars \cup {" "}

C6_InvalidInputTouchesNoFile ==
    (last.outcome # "none"
        /\ (MissingImage(last.input) \/ BlankLocation(last.input)
                \/ NonNumeric(last.input)))
    => /\ last.io = {}
       /\ product_file = pre_product
       /\ inventory_file = pre_inventory

C6_Witness ==
    /\ BlankLocation(last.input)
    /\ last.outcome = "no_location"
    /\ prev.outcome = "ok"
    /\ product_file.exists /\ inventory_file.exists

\* C7: when an export fails on file I/O, each file holds either its complete
\* content from before the export or the complete content the export was
\* writing; neither is left truncated or partly written.
CompleteProduct ==
    WrittenFile(CSV_FIELDS,
                remove_existing(read_csv_to_list(pre_product), last.handle) \o
                new_product_rows(last.handle, last.title, last.tags, last.image))

C7_FilesWholeAfterIOFailure ==
    last.outcome = "io_error"
    => /\ product_file = pre_product \/ product_file = CompleteProduct
       /\ \/ inventory_file = pre_inventory
          \/ /\ inventory_file.header = inventory_fields
             /\ Len(RowsOf(inventory_file, last.handle)) = Len(variants)
             /\ RowsNotOf(inventory_file, last.handle) =
                    RowsNotOf(pre_inventory, last.handle)

\* C8: the handle depends only on (title, platform, region): two exports
\* whose triples are equal, or differ only in letter case or in a blank
\* against a hyphen, use the same handle whatever was exported in between.
SameChar(c, d) == LowerChar(c) = LowerChar(d) \/ {c, d} \subseteq {" ", "-"}

SameText(s, t) == Len(s) = Len(t) /\ \A i \in DOMAIN s : SameChar(s[i], t[i])

SameTriple(a, b) ==
    /\ SameText(a.input.game.title, b.input.game.title)
    /\ SameText(a.input.platform_name, b.input.platform_name)
    /\ SameText(a.region_code, b.region_code)

C8_HandleIsPure ==
    (Ok /\ PrevOk /\ SameTriple(prev, last))
    => /\ WrittenHandle(product_file) = prev.handle
       /\ WrittenHandle(inventory_file) = prev.handle

C8_Witness ==
    /\ Ok /\ PrevOk /\ SameTriple(prev, last)
    /\ prev.input.game.title # last.input.game.title
    /\ prev.input.platform_name # last.input.platform_name
    /\ pre_product.exists

\* C9: the handle an export uses is slugify(lowercase(title-platform-region))
\* where slugify only turns blanks into hyphens and strips every character
\* that is neither alphanumeric nor a hyphen.
Joined(call) ==
    call.input.game.title \o <<"-">> \o call.input.platform_name \o <<"-">> \o
    call.region_code

SlugCharClaimed(c) ==
    IF c = " " THEN <<"-">>
    ELSE IF isalnum(c) \/ c = "-" THEN <<c>>
    ELSE << >>

SlugChar(c) == IF c = "&" THEN <<"a", "n", "d">> ELSE SlugCharClaimed(c)

C9_HandleIsClaimedSlug ==
    Ok => WrittenHandle(product_file) =
              Flatten([i \in DOMAIN Joined(last) |->
                          SlugCharClaimed(LowerChar(Joined(last)[i]))])

\* C9 as amended: slugify also spells every "&" as "and" before stripping;
\* the handle of ("Chrono Trigger", "Super Nintendo", "United States") is
\* "chrono-trigger-super-nintendo-united-states".
C9_HandleIsSlug ==
    Ok => /\ WrittenHandle(product_file) =
                 Flatten([i \in DOMAIN Joined(last) |->
                             SlugChar(LowerChar(Joined(last)[i]))])
          /\ WrittenHandle(inventory_file) = WrittenHandle(product_file)
          /\ Joined(last) = ChronoTrigger \o <<"-">> \o SuperNintendo \o <<"-">>
                                \o UnitedStates
             => WrittenHandle(product_file) =
                    <<"c","h","r","o","n","o","-","t","r","i","g","g","e","r","-",
                      "s","u","p","e","r","-","n","i","n","t","e","n","d","o","-",
                      "u","n","i","t","e","d","-","s","t","a","t","e","s">>

C9_Witness ==
    /\ Ok
    /\ "&" \in Range(last.input.game.title)
    /\ "!" \in Range(prev.input.game.title)
    /\ PrevOk

\* C10: on a first export under a handle the selected variant's inventory row
\* has Available = On hand = the entered quantity and the rows of the 12
\* other variants have Available = On hand = 0.
C10_FirstExportQuantities ==
    (Ok /\ RowsOf(pre_inventory, last.handle) = << >>)
    => \A i \in DOMAIN variants :
          LET expected == IF variants[i] = last.input.variant
                          THEN last.quantity ELSE 0
          IN /\ Available(inventory_file, last.handle, variants[i]) = expected
             /\ OnHand(inventory_file, last.handle, variants[i]) = expected

C10_Witness ==
    /\ Ok
    /\ RowsOf(pre_inventory, last.handle) = << >>
    /\ pre_inventory.exists
    /\ last.input.quantity = <<"1">>
    /\ last.input.variant = "Disk Only"
    /\ Cardinality({i \in DOMAIN variants : variants[i] # last.input.variant}) = 12

\* the lines of a file that the latest export appended: one per variant, at
\* the end of the file
NewRows(file) ==
    SubSeq(file.rows, Len(file.rows) - Len(variants) + 1, Len(file.rows))

\* the columns the dict of the i-th new product row sets (lines 989-1035)
ProductKeys(i) ==
    IF i = 1
    THEN DOMAIN base_row(<< >>, << >>, << >>, << >>) \cup {"Option1 Value"}
    ELSE DOMAIN variant_row(<< >>, << >>)

\* C11: after every successful export the header of product_import.csv is
\* CSV_FIELDS in declared order, the header of inventory_import.csv is the
\* sixteen inventory columns in declared order, every row of either file has
\* exactly one cell per declared column, and a column a written product row
\* does not set is the empty text.
C11_HeadersAndColumns ==
    Ok =>
        /\ product_file.header = CSV_FIELDS
        /\ inventory_file.header = inventory_fields
        /\ Len(inventory_fields) = 16
        /\ \A i \in DOMAIN product_file.rows :
               Len(product_file.rows[i]) = Len(CSV_FIELDS)
        /\ \A i \in DOMAIN inventory_file.rows :
               Len(inventory_file.rows[i]) = Len(inventory_fields)
        /\ \A i \in DOMAIN variants : \A c \in DOMAIN CSV_FIELDS :
               CSV_FIELDS[c] \notin ProductKeys(i)
                   => NewRows(product_file)[i][c] = << >>

\* two products exported one after the other: the second export rewrote the
\* rows of the first as well as its own
C11_Witness ==
    /\ Ok /\ PrevOk /\ last.handle # prev.handle
    /\ Len(product_file.rows) = 2 * Len(variants)
    /\ NewRows(product_file)[2][ColumnOf(CSV_FIELDS, "Title")] = << >>

\* the product-level columns
ProductLevel ==
    {"Title", "Vendor", "Product Category", "Type", "Tags", "Published",
     "Image Src", "SEO Title"}

\* C20: a successful export appends, for the variants in list order, exactly
\* one product row and one inventory row each, carrying the handle and that
\* variant as Option1 Value; the first product row alone carries Title,
\* Vendor, Product Category, Type, Tags, Published, Image Src and SEO Title,
\* and the later product rows leave those columns empty.
C20_RowsPerVariant ==
    Ok =>
        /\ Len(RowsOf(product_file, last.handle)) = Len(variants)
        /\ Len(RowsOf(inventory_file, last.handle)) = Len(variants)
        /\ \A i \in DOMAIN variants :
            LET p == NewRows(product_file)[i]
                n == NewRows(inventory_file)[i]
            IN /\ p[ColumnOf(CSV_FIELDS, "Handle")] = last.handle
               /\ p[ColumnOf(CSV_FIELDS, "Option1 Value")] = <<variants[i]>>
               /\ n[ColumnOf(inventory_fields, "Handle")] = last.handle
               /\ n[ColumnOf(inventory_fields, "Option1 Value")] = <<variants[i]>>
               /\ \A name \in ProductLevel :
                      (p[ColumnOf(CSV_FIELDS, name)] # << >>) <=> (i = 1)

\* an export that replaced the rows an earlier export wrote for the handle
C20_Witness ==
    /\ Ok /\ PrevOk /\ last.handle = prev.handle
    /\ NewRows(product_file)[1][ColumnOf(CSV_FIELDS, "Vendor")] = <<"Trippy Trades">>
    /\ NewRows(product_file)[Len(variants)][ColumnOf(CSV_FIELDS, "Vendor")] = << >>

\* C12: whatever the times of the calls, two consecutive upstream requests
\* are sent at least rate_limit apart.
C12_RequestsSpacedByRateLimit ==
    sent_before > 0 => sent_at - sent_before >= rate_limit

\* C13: a call that finds its cache file answers with the response stored in
\* it, sends nothing upstream and does not wait on the limiter; it leaves
\* last_request_time and the cache as they were.
C13_CacheHitTouchesNothing ==
    [][(calls' = calls + 1 /\ ret'.kind = "hit") =>
          /\ ret'.value = eval(cache[ret'.path])
          /\ UNCHANGED <<now, last_request_time, cache, sent_at, sent_before>>]_vars

\* a hit inside the window in which the limiter would have slept, answered
\* from the revision cached although the server has moved on
C13_Witness ==
    /\ ret.kind = "hit"
    /\ ret.before.last_request_time > 0
    /\ ret.before.now - ret.before.last_request_time < rate_limit
    /\ ret.value.revision = 1

\* C14: two requests that differ in the endpoint or in a parameter value
\* have different cache files, so a call answered from the cache gets the
\* response of its own request.
C14_DistinctRequestsDistinctFiles ==
    /\ (ret_prev.kind # "none" /\ ret.request # ret_prev.request)
           => ret.path # ret_prev.path
    /\ ret.kind = "hit" => ret.value.request = ret.request

\* C15: a call whose upstream request fails raises, and leaves the cache as
\* it found it with no file for the request, so that the same request made
\* next goes upstream again.
C15_FailureCachesNothing ==
    /\ ret.kind = "http_error" =>
           /\ cache = ret.before.cache
           /\ ret.path \notin DOMAIN cache
    /\ (ret_prev.kind = "http_error" /\ ret.request = ret_prev.request)
           => ret.kind # "hit"

\* the request that failed, made again and answered by the server
C15_Witness ==
    /\ ret_prev.kind = "http_error"
    /\ ret.request = ret_prev.request
    /\ ret.kind = "fetched"
    /\ ret.path \in DOMAIN cache

\* what the window shows of the catalog: the selected game, the games found,
\* the three lists and the images
Displayed ==
    <<selected_game_id, current_games, game_results_combo.items,
      region_code_combo.items, scan_type_combo.items, image_layout>>

\* C16: a search or a game selection whose catalog request fails leaves the
\* selected game id, the game list, the search-result list, the region and
\* cover-type lists and the displayed images as they were before it.
C16_FailedRequestLeavesState ==
    [][(/\ steps' = steps + 1
        /\ handled'.handler \in {"search_games", "on_game_selected"}
        /\ handled'.failed)
          => UNCHANGED Displayed]_vars

\* C17: no image_loaded signal is emitted by a loader whose stop() had
\* already been requested, wherever in run() the request met it.
C17_NoEmitAfterStop == \A signal \in signals : ~signal.after_stop

\* C18: every loader still running was started for the latest display: when
\* new loaders start, those of earlier selections have all been stopped.
C18_OnlyLatestLoadersRun ==
    \A id \in DOMAIN loaders :
        loaders[id].pc # "done" =>
            /\ loaders[id].gen = displays
            /\ loaders[id]._is_running
            /\ id \in Range(image_loaders)

\* loaders of a later display running after a loader of an earlier one was
\* stopped in flight, far enough to have emitted on its way out
C18_Witness ==
    /\ displays >= 2
    /\ \E id \in DOMAIN loaders :
           loaders[id].pc \notin {"line110", "done"} /\ loaders[id].gen = displays
    /\ \E signal \in signals :
           signal.after_stop /\ signal.widget \notin {image_layout[i].id : i \in DOMAIN image_layout}

\* the inputs export_to_csv reads as the constructor leaves them
\* (lines 476-534)
Untyped(sel) ==
    /\ sel.custom_region = << >>
    /\ sel.custom_image_url = << >>
    /\ sel.variant = variants[1]
    /\ sel.quantity = <<"0">>
    /\ sel.location = InStoreReservoir
    /\ sel.custom_tags = << >>

\* C19: an export made after the game or the region changed carries nothing
\* chosen before the change: no checked image unless one was ticked since,
\* and the inputs as constructed unless they were typed since.
C19_NothingCarriesOver ==
    [][attempts' = attempts + 1 =>
          /\ "image" \notin touched => last'.input.checked_url = << >>
          /\ "inputs" \notin touched => Untyped(last'.input)]_vars

\* a cell as the wrapping of lines 1040-1043 leaves it
Wrapped(cell) ==
    "," \in Range(cell) => cell[1] = "\"" /\ cell[Len(cell)] = "\""

\* C21: in the rows an export wrote to either file, every cell that holds a
\* comma starts and ends with a double quote; and wrapping the title or the
\* location twice gives what wrapping it once gives.
C21_CommaFieldsQuoted ==
    Ok =>
       /\ \A i \in DOMAIN variants :
              /\ \A c \in DOMAIN CSV_FIELDS : Wrapped(NewRows(product_file)[i][c])
              /\ \A c \in DOMAIN inventory_fields : Wrapped(NewRows(inventory_file)[i][c])
       /\ quote_field(quote_field(last.title)) = quote_field(last.title)
       /\ quote_field(quote_field(last.location)) = quote_field(last.location)

\* the region a selection asks for: the override without the blanks around
\* it unless it is blank, and then the region of the list
RegionAsked(sel) ==
    IF \A i \in DOMAIN sel.custom_region : sel.custom_region[i] = " "
    THEN sel.region
    ELSE strip(sel.custom_region)

\* C22: the handle and the title an export writes carry the custom region
\* override whenever it is not blank, and the region selected in the list
\* only when it is blank.
C22_OverrideBeforeSelectedRegion ==
    Ok =>
       LET sel    == last.input
           region == RegionAsked(sel)
           h      == handle(sel.game.title, sel.platform_name, region)
           first  == NewRows(product_file)[1]
       IN /\ \A i \in DOMAIN variants :
                 /\ NewRows(product_file)[i][ColumnOf(CSV_FIELDS, "Handle")] = h
                 /\ NewRows(inventory_file)[i][ColumnOf(inventory_fields, "Handle")] = h
          /\ first[ColumnOf(CSV_FIELDS, "Title")] =
                 quote_field(product_title(sel.game.title, sel.platform_name, region))

\* an export with nothing selected in the region list and an override typed
\* with blanks around it
C22_Witness ==
    /\ Ok
    /\ last.input.region = << >>
    /\ last.input.custom_region = <<" ", "j", "p", " ">>
    /\ WrittenHandle(product_file) = <<"a", "-", "b", "-", "n", "6", "4", "-", "j", "p">>

\* C23: get_games_by_platform ends after finitely many page requests
\* whatever the server answers: whenever it is about to ask for one more
\* page it holds a total it has read, and the pages asked so far have not
\* reached it; and what it returns is the pages it fetched, one after the
\* other.
C23_PagesRunOut ==
    /\ (paging_pc = "line305" /\ requests > 0) =>
           /\ ~total.is_none
           /\ limit * requests < total.value
    /\ paging_pc = "line327" => all_games = Flatten(pages)

\* the handles a file lists
HandlesOf(file) ==
    IF file.header = << >> THEN {}
    ELSE {file.rows[i][HandleColumn(file)] : i \in DOMAIN file.rows}

\* C24: after an export attempt, whether it succeeded or failed and
\* wherever it failed, the two files list the same handles if they did
\* before the attempt.
C24_FilesListSameHandles ==
    (attempts > 0 /\ HandlesOf(pre_product) = HandlesOf(pre_inventory))
        => HandlesOf(product_file) = HandlesOf(inventory_file)

\* C25: a delivered image_loaded signal changes no widget but the one made
\* together with its loader, and gives that one the image of its own cover;
\* a signal of a loader whose widget was cleared changes nothing shown.
C25_ImageReachesOwnWidget ==
    [][\A s \in signals :
          (signals' = signals \ {s} /\ handled'.handler = "on_image_loaded_new") =>
             /\ DOMAIN image_layout' = DOMAIN image_layout
             /\ \A i \in DOMAIN image_layout :
                    image_layout'[i] # image_layout[i] =>
                        /\ image_layout[i].id = s.widget
                        /\ image_layout'[i].pixmap = image_layout[i].image_url]_vars

\* a signal was just delivered while the covers of a later display are
\* shown, and none of their widgets has an image: the signal came from a
\* loader of an earlier display, whose widget was cleared
C25_Witness ==
    /\ handled.handler = "on_image_loaded_new"
    /\ displays >= 2
    /\ image_layout # << >>
    /\ \A i \in DOMAIN image_layout :
           image_layout[i].kind = "image" /\ image_layout[i].pixmap = << >>

====
